---- MODULE Spec2Model ----
(***************************************************************************)
(* Model of src/src/python/solver.py: the finite-element assembly of the   *)
(* 2D Helmholtz system and the solve_2d_hellmholtz pipeline.               *)
(*                                                                         *)
(* Numbers.  The quadrature points are +-1/sqrt(3), so every quantity the  *)
(* kernels compute from integer inputs lies in the field Q(sqrt 3).  A     *)
(* real number is the triple <<a, b, d>> standing for (a + b*sqrt(3))/d    *)
(* with d > 0, in lowest terms.  The triple <<0, 0, 0>> stands for the     *)
(* non-finite floating-point values (inf, nan) that numpy produces from    *)
(* 1.0/0.0; it absorbs addition and multiplication.  Arithmetic is exact.  *)
(* Python indices are 0-based; sequences here are 1-based, node indices    *)
(* keep their 0-based values.                                              *)
(***************************************************************************)
EXTENDS Integers, Sequences, FiniteSets

VARIABLES mesh, omega, callbacks, fwi_ls, g_impl, pc, trace,
          K, f, Ke, fe, ye, P, ret, err, invoked, dispatched, kernel_used

vars == <<mesh, omega, callbacks, fwi_ls, g_impl, pc, trace,
          K, f, Ke, fe, ye, P, ret, err, invoked, dispatched, kernel_used>>

---------------------------------------------------------------------------
(* Exact arithmetic in Q(sqrt 3) with a non-finite value.                  *)

Abs(n) == IF n < 0 THEN -n ELSE n

RECURSIVE GCD(_, _)
GCD(m, n) == IF n = 0 THEN m ELSE GCD(n, m % n)

NonFinite == <<0, 0, 0>>

IsFinite(x) == x[3] # 0

\* (a + b*sqrt(3))/d divided through by g = gcd(a, b, d), with d made positive.
QReduce(a, b, d, g) ==
    IF d < 0 THEN <<(-a) \div g, (-b) \div g, (-d) \div g>>
    ELSE <<a \div g, b \div g, d \div g>>

QNorm(a, b, d) ==
    IF d = 0 THEN NonFinite ELSE QReduce(a, b, d, GCD(GCD(Abs(a), Abs(b)), Abs(d)))

QInt(n) == <<n, 0, 1>>

QZero == QInt(0)

QAdd(x, y) ==
    IF ~IsFinite(x) \/ ~IsFinite(y) THEN NonFinite
    ELSE IF x[3] = y[3] THEN QNorm(x[1] + y[1], x[2] + y[2], x[3])
    ELSE QNorm(x[1] * y[3] + y[1] * x[3], x[2] * y[3] + y[2] * x[3], x[3] * y[3])

QNeg(x) == <<-x[1], -x[2], x[3]>>

QSub(x, y) == QAdd(x, QNeg(y))

QMul(x, y) ==
    IF ~IsFinite(x) \/ ~IsFinite(y) THEN NonFinite
    ELSE QNorm(x[1] * y[1] + 3 * x[2] * y[2], x[1] * y[2] + x[2] * y[1], x[3] * y[3])

\* 1.0 / x in floating point: 1.0/0.0 is inf (a warning, no exception).
QInv(x) ==
    IF ~IsFinite(x) \/ (x[1] = 0 /\ x[2] = 0) THEN NonFinite
    ELSE QNorm(x[3] * x[1], -(x[3] * x[2]), x[1] * x[1] - 3 * x[2] * x[2])

\* Sign of (a + b*sqrt(3))/d, d > 0: -1, 0 or 1.
QSign(x) ==
    LET a == x[1]
        b == x[2]
        n == a * a - 3 * b * b
    IN  IF a = 0 /\ b = 0 THEN 0
        ELSE IF a >= 0 /\ b >= 0 THEN 1
        ELSE IF a <= 0 /\ b <= 0 THEN -1
        ELSE IF a > 0 THEN (IF n > 0 THEN 1 ELSE -1)
        ELSE (IF n < 0 THEN 1 ELSE -1)

\* Complex numbers are pairs <<re, im>>.
CZero == <<QZero, QZero>>

CAdd(x, y) == <<QAdd(x[1], y[1]), QAdd(x[2], y[2])>>

RECURSIVE QSum(_)
QSum(s) == IF s = <<>> THEN QZero ELSE QAdd(Head(s), QSum(Tail(s)))

---------------------------------------------------------------------------
(* Dense matrices are sequences of rows.  Tup evaluates a sequence once,   *)
(* so that its entries are not recomputed at every use.                    *)

Tup(s) == <<>> \o s

Rows(A) == Len(A)

Cols(A) == Len(A[1])

Transpose(A) == Tup([j \in 1..Cols(A) |-> Tup([i \in 1..Rows(A) |-> A[i][j]])])

Dot(A, B) ==
    Tup([i \in 1..Rows(A) |->
        Tup([j \in 1..Cols(B) |->
            QSum(Tup([k \in 1..Cols(A) |-> QMul(A[i][k], B[k][j])]))])])

Scale(c, A) == Tup([i \in 1..Rows(A) |-> Tup([j \in 1..Cols(A) |-> QMul(c, A[i][j])])])

MatAdd(A, B) ==
    Tup([i \in 1..Rows(A) |-> Tup([j \in 1..Cols(A) |-> QAdd(A[i][j], B[i][j])])])

Zeros(m, n) == Tup([i \in 1..m |-> Tup([j \in 1..n |-> QZero])])

\* numpy.linalg.det of a 2x2 matrix.
det(J) == QSub(QMul(J[1][1], J[2][2]), QMul(J[1][2], J[2][1]))

---------------------------------------------------------------------------
(* Element kernel.                                                         *)

One == QInt(1)

InvSqrt3 == <<0, 1, 3>>

integration_point ==
    << <<QNeg(InvSqrt3), QNeg(InvSqrt3)>>,
       <<InvSqrt3, QNeg(InvSqrt3)>>,
       <<InvSqrt3, InvSqrt3>>,
       <<QNeg(InvSqrt3), InvSqrt3>> >>

w == <<One, One, One, One>>

Quarter(x) == QMul(x, <<1, 0, 4>>)

\* N[0, 0..3] from the factors rm = 1 - r, rp = 1 + r, sm = 1 - s, sp = 1 + s:
\* a 1x4 matrix.
ShapeNFrom(rm, rp, sm, sp) ==
    << << Quarter(QMul(rm, sm)), Quarter(QMul(rp, sm)),
          Quarter(QMul(rp, sp)), Quarter(QMul(rm, sp)) >> >>

\* grad_N from the same factors, a 4x2 matrix.
GradNFrom(rm, rp, sm, sp) ==
    << << QNeg(Quarter(sm)), QNeg(Quarter(rm)) >>,
       << Quarter(sm),       QNeg(Quarter(rp)) >>,
       << Quarter(sp),       Quarter(rp) >>,
       << QNeg(Quarter(sp)), Quarter(rm) >> >>

ShapeN(r, s) == ShapeNFrom(QSub(One, r), QAdd(One, r), QSub(One, s), QAdd(One, s))

GradN(r, s) == GradNFrom(QSub(One, r), QAdd(One, r), QSub(One, s), QAdd(One, s))

\* element_points is a 4x2 array of integers.
PointsQ(element_points) ==
    Tup([k \in 1..4 |-> Tup([c \in 1..2 |-> QInt(element_points[k][c])])])

\* J = np.dot(grad_N.T, element_points) at quadrature point i.
Jacobian(element_points, i) ==
    Dot(Transpose(GradN(integration_point[i][1], integration_point[i][2])),
        PointsQ(element_points))

\* dJ at quadrature point i.
DetJ(element_points, i) == det(Jacobian(element_points, i))

\* Lines 66-67: inv_J and B, from J and dJ.
GradB(J, dJ, grad_N) ==
    Scale(QInv(dJ),
          Dot(<< <<J[2][2], QNeg(J[1][2])>>, <<QNeg(J[2][1]), J[1][1]>> >>,
              Transpose(grad_N)))

\* Lines 69-71: the three accumulators after one more quadrature point.
KeAccumulate(acc, wi, NtN, BtB, dJ, om, mu, eta) ==
    [M_hat |-> MatAdd(acc.M_hat,
                      Scale(QMul(QMul(QMul(wi, QNeg(QInt(om * om))), QInt(mu)), dJ), NtN)),
     C_hat |-> MatAdd(acc.C_hat,
                      Scale(QMul(QMul(QMul(wi, QInt(om)), QInt(eta)), dJ), NtN)),
     K_hat |-> MatAdd(acc.K_hat, Scale(QMul(wi, dJ), BtB))]

KeWithB(acc, wi, N, B, dJ, om, mu, eta) ==
    KeAccumulate(acc, wi, Dot(Transpose(N), N), Dot(Transpose(B), B), dJ, om, mu, eta)

KeWithDJ(acc, wi, N, grad_N, J, dJ, om, mu, eta) ==
    KeWithB(acc, wi, N, GradB(J, dJ, grad_N), dJ, om, mu, eta)

KeWithJ(acc, wi, N, grad_N, J, om, mu, eta) ==
    KeWithDJ(acc, wi, N, grad_N, J, det(J), om, mu, eta)

\* The loop body at the point (r, s) with weight wi.
KeAtPoint(acc, wi, N, grad_N, element_points, om, mu, eta) ==
    KeWithJ(acc, wi, N, grad_N, Dot(Transpose(grad_N), PointsQ(element_points)),
            om, mu, eta)

\* The accumulators after the loop body has run for the points i..4.
RECURSIVE KeLoop(_, _, _, _, _, _)
KeLoop(i, acc, element_points, om, mu, eta) ==
    IF i > 4 THEN acc
    ELSE KeLoop(i + 1,
                KeAtPoint(acc, w[i],
                          ShapeN(integration_point[i][1], integration_point[i][2]),
                          GradN(integration_point[i][1], integration_point[i][2]),
                          element_points, om, mu, eta),
                element_points, om, mu, eta)

\* K = M_hat + C_hat + K_hat, entry by entry; M_hat and K_hat are real and
\* C_hat is imaginary.
KeSum(acc) ==
    Tup([k \in 1..4 |-> Tup([l \in 1..4 |->
        <<QAdd(acc.M_hat[k][l], acc.K_hat[k][l]), acc.C_hat[k][l]>>])])

\* The 4x4 complex local matrix.
_build_local_Ke(element_points, om, mu, eta) ==
    KeSum(KeLoop(1, [M_hat |-> Zeros(4, 4), C_hat |-> Zeros(4, 4), K_hat |-> Zeros(4, 4)],
                 element_points, om, mu, eta))

\* Line 140: f += w[i] * N.T * S_e * dJ.
FAccumulate(facc, wi, N, dJ, S_e) ==
    MatAdd(facc, Scale(QMul(QMul(wi, QInt(S_e)), dJ), Transpose(N)))

RECURSIVE FLoop(_, _, _, _)
FLoop(i, facc, element_points, S_e) ==
    IF i > 4 THEN facc
    ELSE FLoop(i + 1,
               FAccumulate(facc, w[i],
                           ShapeN(integration_point[i][1], integration_point[i][2]),
                           DetJ(element_points, i), S_e),
               element_points, S_e)

\* The 4x1 real local load vector.
_build_local_f(element_points, S_e) == FLoop(1, Zeros(4, 1), element_points, S_e)

---------------------------------------------------------------------------
(* Kernel selection.  _fwi_ls is the optional accelerated module; fwi_ls   *)
(* says what the interpreter finds: "absent" (no such module),             *)
(* "no_kernels" (the module lacks build_local_Ke / build_local_f) or       *)
(* "present".  g_impl is the configuration held by the globals module.     *)

Returned(v) == [status |-> "returned", value |-> v]

Raised(e) == [status |-> "raised", error |-> e]

\* g.choose_impl(accelerated, reference): one selection by configuration.
choose_impl(accelerated, reference) ==
    IF g_impl = "accelerated" THEN accelerated ELSE reference

\* The accelerated kernels compute what the reference kernels compute.
fwi_ls_build_local_Ke(element_points, om, mu, eta) ==
    _build_local_Ke(element_points, om, mu, eta)

fwi_ls_build_local_f(element_points, S_e) == _build_local_f(element_points, S_e)

CallKe(impl, element_points, om, mu, eta) ==
    IF impl = "_fwi_ls.build_local_Ke"
    THEN fwi_ls_build_local_Ke(element_points, om, mu, eta)
    ELSE _build_local_Ke(element_points, om, mu, eta)

CallF(impl, element_points, S_e) ==
    IF impl = "_fwi_ls.build_local_f"
    THEN fwi_ls_build_local_f(element_points, S_e)
    ELSE _build_local_f(element_points, S_e)

---------------------------------------------------------------------------
(* Global assembler.                                                       *)

Min(a, b) == IF a < b THEN a ELSE b

\* zip(...) stops at the shortest of its arguments.
ZipLenK(m) ==
    Min(Min(Len(m.connectivity_list), Len(m.points_in_elements)),
        Min(Len(m.mu), Len(m.eta)))

ZipLenF(m) == Min(Len(m.connectivity_list), Len(m.points_in_elements))

\* mesh.source_at_element(eid), eid 0-based.
source_at_element(m, eid) == m.source[eid + 1]

\* Ke_local_list with every element given the material of the first one.
Ke_local_list_first_material(m, om, build_local_Ke) ==
    Tup([e \in 1..ZipLenK(m) |->
        <<m.connectivity_list[e],
          CallKe(build_local_Ke, m.points_in_elements[e], om, m.mu[1], m.eta[1])>>])

\* The first loop of _assembly_K: (connectivity, local matrix) per element.
Ke_local_list(m, om, build_local_Ke) ==
    Tup([e \in 1..ZipLenK(m) |->
        <<m.connectivity_list[e],
          CallKe(build_local_Ke, m.points_in_elements[e], om, m.mu[e], m.eta[e])>>])

\* ElementTriplets with the row index appended to the column list as well.
ElementTriplets_row_twice(connectivity, Ke_local) ==
    Tup([t \in 1..(Len(connectivity) * Len(connectivity)) |->
        <<connectivity[((t - 1) \div Len(connectivity)) + 1],
          connectivity[((t - 1) \div Len(connectivity)) + 1],
          Ke_local[((t - 1) \div Len(connectivity)) + 1][((t - 1) % Len(connectivity)) + 1]>>])

\* ElementTriplets with the value read at [k, k] instead of [k, l].
ElementTriplets_diagonal_value(connectivity, Ke_local) ==
    Tup([t \in 1..(Len(connectivity) * Len(connectivity)) |->
        <<connectivity[((t - 1) \div Len(connectivity)) + 1],
          connectivity[((t - 1) % Len(connectivity)) + 1],
          Ke_local[((t - 1) \div Len(connectivity)) + 1][((t - 1) \div Len(connectivity)) + 1]>>])

\* The two inner loops for one element: the triplets (p1, p2, Ke_local[k, l])
\* in the order k outer, l inner.
ElementTriplets(connectivity, Ke_local) ==
    LET n == Len(connectivity)
    IN  Tup([t \in 1..(n * n) |->
            LET k == ((t - 1) \div n) + 1
                l == ((t - 1) % n) + 1
            IN  <<connectivity[k], connectivity[l], Ke_local[k][l]>>])

RECURSIVE TripletLoop(_)
TripletLoop(list) ==
    IF list = <<>> THEN <<>>
    ELSE ElementTriplets(Head(list)[1], Head(list)[2]) \o TripletLoop(Tail(list))

\* scipy's coo_matrix((data, (i, j)), shape): it keeps the triplets as given
\* and rejects an index outside the shape.
coo_matrix(triplets, shape) ==
    IF \E t \in 1..Len(triplets) :
          \/ triplets[t][1] < 0 \/ triplets[t][1] >= shape[1]
          \/ triplets[t][2] < 0 \/ triplets[t][2] >= shape[2]
    THEN Raised("ValueError")
    ELSE Returned([Ke_coo_i |-> Tup([t \in 1..Len(triplets) |-> triplets[t][1]]),
                   Ke_coo_j |-> Tup([t \in 1..Len(triplets) |-> triplets[t][2]]),
                   Ke_coo_data |-> Tup([t \in 1..Len(triplets) |-> triplets[t][3]]),
                   shape |-> shape])

\* Entry (i, j) of a coordinate-format matrix: the triplets that name (i, j)
\* are summed (as tocsc() does); ts is the set of their positions still to add.
RECURSIVE SumTriplets(_, _)
SumTriplets(M, ts) ==
    IF ts = {} THEN CZero
    ELSE LET t == CHOOSE t \in ts : TRUE
         IN  CAdd(M.Ke_coo_data[t], SumTriplets(M, ts \ {t}))

Entry(M, i, j) ==
    SumTriplets(M, {t \in 1..Len(M.Ke_coo_data) : M.Ke_coo_i[t] = i /\ M.Ke_coo_j[t] = j})

_assembly_K(m, om) ==
    IF fwi_ls # "present" THEN Raised("AttributeError")
    ELSE
      LET build_local_Ke == choose_impl("_fwi_ls.build_local_Ke", "_build_local_Ke")
      IN  coo_matrix(TripletLoop(Ke_local_list(m, om, build_local_Ke)),
                     <<m.n_points, m.n_points>>)

\* SlotLoop with f[p, 0] = f_local[k, 0] in place of +=.
RECURSIVE SlotLoop_overwrite(_, _, _, _)
SlotLoop_overwrite(res, connectivity, f_local, k) ==
    IF res.status = "raised" \/ k > Len(connectivity) THEN res
    ELSE LET p == connectivity[k]
         IN  IF p >= Len(res.value) THEN Raised("IndexError")
             ELSE SlotLoop_overwrite(Returned([res.value EXCEPT ![p + 1] = f_local[k][1]]),
                                     connectivity, f_local, k + 1)

\* The inner loop of _assembly_f over the slots k..Len(connectivity):
\* f[p, 0] += f_local[k, 0]; an index past the end raises IndexError.
RECURSIVE SlotLoop(_, _, _, _)
SlotLoop(res, connectivity, f_local, k) ==
    IF res.status = "raised" \/ k > Len(connectivity) THEN res
    ELSE LET p == connectivity[k]
         IN  IF p >= Len(res.value) THEN Raised("IndexError")
             ELSE SlotLoop(Returned([res.value EXCEPT ![p + 1] = QAdd(@, f_local[k][1])]),
                           connectivity, f_local, k + 1)

\* The loop of _assembly_f over the elements eid..ZipLenF - 1 (0-based).
RECURSIVE ElemLoopF(_, _, _, _)
ElemLoopF(res, m, build_local_f, eid) ==
    IF res.status = "raised" \/ eid >= ZipLenF(m) THEN res
    ELSE LET f_local == CallF(build_local_f, m.points_in_elements[eid + 1],
                              source_at_element(m, eid))
         IN  ElemLoopF(SlotLoop(res, m.connectivity_list[eid + 1], f_local, 1),
                       m, build_local_f, eid + 1)

\* The global load vector; entry p of the n_points x 1 array is value[p + 1].
_assembly_f(m) ==
    IF fwi_ls # "present" THEN Raised("AttributeError")
    ELSE
      LET build_local_f == choose_impl("_fwi_ls.build_local_f", "_build_local_f")
      IN  ElemLoopF(Returned(Tup([p \in 1..m.n_points |-> QZero])), m, build_local_f, 0)

---------------------------------------------------------------------------
(* Complex-to-real transform and its inverse (complex_linear_system).      *)

\* Ke = [[Kr, -Ki], [Ki, Kr]] (2n x 2n, dense rows here), fe = [f, 0].
convert_complex_linear_system_to_real(Kc, fc) ==
    LET n == Kc.shape[1]
        Kd == Tup([i \in 1..n |-> Tup([j \in 1..n |-> Entry(Kc, i - 1, j - 1)])])
    IN  << Tup([i \in 1..(2 * n) |-> Tup([j \in 1..(2 * n) |->
               IF i <= n /\ j <= n THEN Kd[i][j][1]
               ELSE IF i <= n THEN QNeg(Kd[i][j - n][2])
               ELSE IF j <= n THEN Kd[i - n][j][2]
               ELSE Kd[i - n][j - n][1]])]),
           fc \o Tup([p \in 1..n |-> QZero]) >>

\* x = ye[0:n] + i * ye[n:2n].
extract_complex_solution(y) ==
    LET n == Len(y) \div 2
    IN  Tup([p \in 1..n |-> <<y[p], y[n + p]>>])

\* dispatch_callbacks(callbacks, event, **payload): the handlers registered
\* for the event, in registration order, each with the payload; no handler
\* registered is a no-op.
dispatch_callbacks(cbs, event, payload) ==
    IF event \in DOMAIN cbs
    THEN Tup([h \in 1..Len(cbs[event]) |-> [handler |-> cbs[event][h], kwargs |-> payload]])
    ELSE <<>>

---------------------------------------------------------------------------
(* Inputs.                                                                 *)

MaxElems == 2

MaxHandlers == 2

Omegas == {1, 2}

Event == "on_after_solve_2d_hellmholtz"

None == [kind |-> "None"]

EmptyDict == <<>>

\* callbacks arguments: None, or a dictionary from event names to handler
\* lists; handlers are numbered in registration order.
CallbackChoices ==
    {None} \cup
    { [e \in D |-> IF e = Event THEN Tup([h \in 1..k |-> h]) ELSE <<MaxHandlers + 1>>] :
        D \in SUBSET {Event, "on_other_event"}, k \in 0..MaxHandlers }

Square == << <<0, 0>>, <<1, 0>>, <<1, 1>>, <<0, 1>> >>

Trapezoid == << <<0, 0>>, <<2, 0>>, <<1, 1>>, <<0, 1>> >>

Inverted == << <<0, 0>>, <<0, 1>>, <<1, 1>>, <<1, 0>> >>

Collapsed == << <<0, 0>>, <<1, 0>>, <<1, 0>>, <<0, 0>> >>

ConnA == <<0, 1, 2, 3>>

ConnB == <<1, 4, 5, 2>>

ConnC == <<0, 0, 1, 2>>

\* A mesh object: its attributes and the values of source_at_element.
Mesh(n, conns, pts, mus, etas, srcs) ==
    [n_points |-> n, connectivity_list |-> conns, points_in_elements |-> pts,
     mu |-> mus, eta |-> etas, source |-> srcs]

\* The meshes of the solve requests: no element, one square, two elements
\* sharing the edge 1-2, a zero-area element, a node index past n_points,
\* and a mesh whose mu is one short.
SolveMeshes ==
    { Mesh(4, <<>>, <<>>, <<>>, <<>>, <<>>),
      Mesh(4, <<ConnA>>, <<Square>>, <<1>>, <<0>>, <<1>>),
      Mesh(6, <<ConnA, ConnB>>, <<Square, Trapezoid>>, <<1, 2>>, <<0, 1>>, <<1, 2>>),
      Mesh(4, <<ConnC>>, <<Collapsed>>, <<1>>, <<1>>, <<1>>),
      Mesh(4, <<ConnA, ConnB>>, <<Square, Square>>, <<1, 2>>, <<0, 1>>, <<1, 2>>),
      Mesh(6, <<ConnA, ConnB>>, <<Square, Square>>, <<1>>, <<0, 1>>, <<1, 2>>) }

\* What the external solver may hand back for a system of dimension d.
SolverOutputs(d) ==
    { Tup([i \in 1..d |-> QInt(c)]) : c \in 0..1 } \cup { Tup([i \in 1..d |-> QInt(i)]) }

---------------------------------------------------------------------------
(* The solve request, stage by stage.                                      *)

\* Lines 1-11: the module's imports; import _fwi_ls is unconditional.
ImportModule ==
    /\ pc = "unloaded"
    /\ pc' = IF fwi_ls = "absent" THEN "import_error" ELSE "loaded"
    /\ err' = IF fwi_ls = "absent" THEN "ImportError" ELSE err
    /\ UNCHANGED <<mesh, omega, callbacks, fwi_ls, g_impl, trace,
                   K, f, Ke, fe, ye, P, ret, invoked, dispatched, kernel_used>>

\* solve_2d_hellmholtz(mesh, omega, callbacks): the call and lines 17-18.
Call ==
    /\ pc = "loaded"
    /\ \E m \in SolveMeshes, om \in Omegas, cbs \in CallbackChoices :
          /\ mesh' = m
          /\ omega' = om
          /\ callbacks' = IF cbs = None THEN EmptyDict ELSE cbs
    /\ pc' = "_assembly_K"
    /\ UNCHANGED <<fwi_ls, g_impl, trace, K, f, Ke, fe, ye, P, ret, err, invoked,
                   dispatched, kernel_used>>

\* _prepare_linear_system, first component: _assembly_K(mesh, omega).
AssemblyK ==
    /\ pc = "_assembly_K"
    /\ \E res \in {_assembly_K(mesh, omega)} :
           IF res.status = "raised"
           THEN /\ pc' = "raised"
                /\ err' = res.error
                /\ UNCHANGED <<K, trace, kernel_used>>
           ELSE /\ pc' = "_assembly_f"
                /\ K' = res.value
                /\ trace' = Append(trace, "_assembly_K")
                /\ kernel_used' = choose_impl("_fwi_ls", "reference")
                /\ UNCHANGED err
    /\ UNCHANGED <<mesh, omega, callbacks, fwi_ls, g_impl, f, Ke, fe, ye, P, ret, invoked,
                   dispatched>>

\* _prepare_linear_system, second component: _assembly_f(mesh).
AssemblyF ==
    /\ pc = "_assembly_f"
    /\ \E res \in {_assembly_f(mesh)} :
           IF res.status = "raised"
           THEN /\ pc' = "raised"
                /\ err' = res.error
                /\ UNCHANGED <<f, trace>>
           ELSE /\ pc' = "convert"
                /\ f' = res.value
                /\ trace' = Append(trace, "_assembly_f")
                /\ UNCHANGED err
    /\ UNCHANGED <<mesh, omega, callbacks, fwi_ls, g_impl, K, Ke, fe, ye, P, ret,
                   invoked, dispatched, kernel_used>>

\* Line 20: the real system.
Convert ==
    /\ pc = "convert"
    /\ \E sys \in {convert_complex_linear_system_to_real(K, f)} :
           /\ Ke' = sys[1]
           /\ fe' = sys[2]
    /\ pc' = "solve"
    /\ trace' = Append(trace, "convert_complex_linear_system_to_real")
    /\ UNCHANGED <<mesh, omega, callbacks, fwi_ls, g_impl, K, f, ye, P, ret, err,
                   invoked, dispatched, kernel_used>>

\* _solve_linear_system with the solver's error swallowed: a zero vector
\* stands in for the solution and the request goes on.
_solve_linear_system_swallow ==
    /\ pc = "solve"
    /\ \/ /\ \E y \in SolverOutputs(Len(fe)) : ye' = y
          /\ UNCHANGED err
       \/ /\ ye' = Tup([i \in 1..Len(fe) |-> QZero])
          /\ err' = "SolverError"
    /\ pc' = "extract"
    /\ trace' = Append(trace, "_solve_linear_system")
    /\ UNCHANGED <<mesh, omega, callbacks, fwi_ls, g_impl, K, f, Ke, fe, P, ret,
                   invoked, dispatched, kernel_used>>

\* _solve_linear_system: pypardiso.spsolve(A.tocsc(), b), an external solver
\* that hands back a vector of the system's dimension or raises.
_solve_linear_system ==
    /\ pc = "solve"
    /\ \/ /\ \E y \in SolverOutputs(Len(fe)) : ye' = y
          /\ pc' = "extract"
          /\ trace' = Append(trace, "_solve_linear_system")
          /\ UNCHANGED err
       \/ /\ pc' = "raised"
          /\ err' = "SolverError"
          /\ UNCHANGED <<ye, trace>>
    /\ UNCHANGED <<mesh, omega, callbacks, fwi_ls, g_impl, K, f, Ke, fe, P, ret,
                   invoked, dispatched, kernel_used>>

\* Line 21: P = extract_complex_solution(...).
Extract ==
    /\ pc = "extract"
    /\ P' = extract_complex_solution(ye)
    /\ pc' = "dispatch"
    /\ trace' = Append(trace, "extract_complex_solution")
    /\ UNCHANGED <<mesh, omega, callbacks, fwi_ls, g_impl, K, f, Ke, fe, ye, ret, err,
                   invoked, dispatched, kernel_used>>

\* Dispatch with the solver's real vector as the payload in place of P.
Dispatch_raw_solution ==
    /\ pc = "dispatch"
    /\ dispatched' = Append(dispatched, [event |-> Event, P |-> ye, mesh |-> mesh])
    /\ invoked' = invoked \o dispatch_callbacks(callbacks, Event, [P |-> ye, mesh |-> mesh])
    /\ trace' = Append(trace, "dispatch_callbacks")
    /\ ret' = None
    /\ pc' = "returned"
    /\ UNCHANGED <<mesh, omega, callbacks, fwi_ls, g_impl, K, f, Ke, fe, ye, P, err,
                   kernel_used>>

\* Line 23 and the end of the function: dispatch, then return (None).
Dispatch ==
    /\ pc = "dispatch"
    /\ dispatched' = Append(dispatched, [event |-> Event, P |-> P, mesh |-> mesh])
    /\ invoked' = invoked \o dispatch_callbacks(callbacks, Event, [P |-> P, mesh |-> mesh])
    /\ trace' = Append(trace, "dispatch_callbacks")
    /\ ret' = None
    /\ pc' = "returned"
    /\ UNCHANGED <<mesh, omega, callbacks, fwi_ls, g_impl, K, f, Ke, fe, ye, P, err,
                   kernel_used>>

Unset == [kind |-> "unset"]

Init ==
    /\ fwi_ls \in {"absent", "no_kernels", "present"}
    /\ g_impl \in {"accelerated", "reference"}
    /\ pc = "unloaded"
    /\ mesh = Mesh(0, <<>>, <<>>, <<>>, <<>>, <<>>)
    /\ omega = 0
    /\ callbacks = EmptyDict
    /\ trace = <<>>
    /\ K = [Ke_coo_i |-> <<>>, Ke_coo_j |-> <<>>, Ke_coo_data |-> <<>>, shape |-> <<0, 0>>]
    /\ f = <<>>
    /\ Ke = <<>>
    /\ fe = <<>>
    /\ ye = <<>>
    /\ P = <<>>
    /\ ret = Unset
    /\ err = "None"
    /\ invoked = <<>>
    /\ dispatched = <<>>
    /\ kernel_used = "None"

Next ==
    \/ ImportModule
    \/ Call
    \/ AssemblyK
    \/ AssemblyF
    \/ Convert
    \/ _solve_linear_system
    \/ Extract
    \/ Dispatch

Spec == Init /\ [][Next]_vars

---------------------------------------------------------------------------
(* The assembler on its own, over a wider family of meshes.                *)

\* An element: its connectivity and its node coordinates.
ElementChoices ==
    { <<ConnA, Square>>, <<ConnB, Trapezoid>>, <<ConnC, Inverted>>, <<ConnB, Collapsed>> }

ElemSeqs == UNION { [1..n -> ElementChoices] : n \in 0..MaxElems }

\* The mesh of the elements es on 6 nodes: element e has mu = e, eta = e - 1
\* and source magnitude e.
MeshOf(es) ==
    Mesh(6, Tup([e \in 1..Len(es) |-> es[e][1]]), Tup([e \in 1..Len(es) |-> es[e][2]]),
         Tup([e \in 1..Len(es) |-> e]), Tup([e \in 1..Len(es) |-> e - 1]),
         Tup([e \in 1..Len(es) |-> e]))

DropLast(s) == SubSeq(s, 1, Len(s) - 1)

\* The mesh m with the last entry of one per-element sequence missing.
Cut(m, c) ==
    IF c = "none" THEN m ELSE [m EXCEPT ![c] = DropLast(@)]

AsmMeshes ==
    { Cut(MeshOf(es), c) : es \in ElemSeqs,
        c \in {"none", "connectivity_list", "points_in_elements", "mu", "eta"} }

AsmOmegas == {2}

InitAsm ==
    /\ fwi_ls = "present"
    /\ g_impl = "reference"
    /\ pc = "_assembly_K"
    /\ mesh \in AsmMeshes
    /\ omega \in AsmOmegas
    /\ callbacks = EmptyDict
    /\ trace = <<>>
    /\ K = [Ke_coo_i |-> <<>>, Ke_coo_j |-> <<>>, Ke_coo_data |-> <<>>, shape |-> <<0, 0>>]
    /\ f = <<>>
    /\ Ke = <<>>
    /\ fe = <<>>
    /\ ye = <<>>
    /\ P = <<>>
    /\ ret = Unset
    /\ err = "None"
    /\ invoked = <<>>
    /\ dispatched = <<>>
    /\ kernel_used = "None"

NextAsm ==
    \/ AssemblyK
    \/ AssemblyF

SpecAssembly == InitAsm /\ [][NextAsm]_vars

---------------------------------------------------------------------------
(* Properties.                                                             *)

AllStages ==
    <<"_assembly_K", "_assembly_f", "convert_complex_linear_system_to_real",
      "_solve_linear_system", "extract_complex_solution", "dispatch_callbacks">>

IsPrefix(s, t) == Len(s) <= Len(t) /\ s = SubSeq(t, 1, Len(s))

\* _assembly_K has just returned K; _assembly_f has just returned f.  No
\* later stage assigns K or f.
KReturned == pc = "_assembly_f"

FReturned == pc = "convert"

NumElements(m) == Len(m.connectivity_list)

\* Every element of the connectivity list has its coordinates, mu and eta.
AllElementsHaveData(m) == ZipLenK(m) = NumElements(m)

LengthsDisagree(m) ==
    \/ Len(m.points_in_elements) # NumElements(m)
    \/ Len(m.mu) # NumElements(m)
    \/ Len(m.eta) # NumElements(m)

\* The local matrices of the elements that have their coordinates, mu and eta,
\* and the local load vectors, by the reference kernels.
LocalKes(m, om) ==
    Tup([e \in 1..ZipLenK(m) |->
        _build_local_Ke(m.points_in_elements[e], om, m.mu[e], m.eta[e])])

LocalFs(m) ==
    Tup([e \in 1..ZipLenF(m) |->
        _build_local_f(m.points_in_elements[e], source_at_element(m, e - 1))])

\* Sum of the values of the function fn.
RECURSIVE CSumFn(_)
CSumFn(fn) ==
    IF DOMAIN fn = {} THEN CZero
    ELSE LET x == CHOOSE x \in DOMAIN fn : TRUE
         IN  CAdd(fn[x], CSumFn([y \in DOMAIN fn \ {x} |-> fn[y]]))

RECURSIVE QSumFn(_)
QSumFn(fn) ==
    IF DOMAIN fn = {} THEN QZero
    ELSE LET x == CHOOSE x \in DOMAIN fn : TRUE
         IN  QAdd(fn[x], QSumFn([y \in DOMAIN fn \ {x} |-> fn[y]]))

\* Sum of local[e][k][l] over the elements e and slots k, l with
\* connectivity_e[k] = i and connectivity_e[l] = j.
ExpectedK(m, locals, i, j) ==
    CSumFn([x \in {y \in (1..NumElements(m)) \X (1..4) \X (1..4) :
                     /\ m.connectivity_list[y[1]][y[2]] = i
                     /\ m.connectivity_list[y[1]][y[3]] = j}
            |-> locals[x[1]][x[2]][x[3]]])

\* Sum of f_local[e][k] over the elements e and slots k with connectivity_e[k] = p.
ExpectedF(m, flocals, p) ==
    QSumFn([x \in {y \in (1..NumElements(m)) \X (1..4) : m.connectivity_list[y[1]][y[2]] = p}
            |-> flocals[x[1]][x[2]][1]])

Nodes(m) == 0..(m.n_points - 1)

Dense(M) == Tup([i \in 1..M.shape[1] |-> Tup([j \in 1..M.shape[2] |-> Entry(M, i - 1, j - 1)])])

\* Equality of two floating-point complex numbers: non-finite values are
\* equal to nothing.
CEq(x, y) == IsFinite(x[1]) /\ IsFinite(x[2]) /\ x = y

SymmetricLocal(A) == \A k \in 1..4, l \in 1..4 : CEq(A[k][l], A[l][k])

ElementOrders(n) == { p \in [1..n -> 1..n] : \A a \in 1..n, b \in 1..n : p[a] = p[b] => a = b }

\* The mesh m with its elements in the order p[1], p[2], ...; each element
\* keeps its connectivity, coordinates, mu, eta and source magnitude.
Permute(m, p) ==
    [n_points |-> m.n_points,
     connectivity_list |-> Tup([e \in 1..NumElements(m) |-> m.connectivity_list[p[e]]]),
     points_in_elements |-> Tup([e \in 1..NumElements(m) |-> m.points_in_elements[p[e]]]),
     mu |-> Tup([e \in 1..NumElements(m) |-> m.mu[p[e]]]),
     eta |-> Tup([e \in 1..NumElements(m) |-> m.eta[p[e]]]),
     source |-> Tup([e \in 1..NumElements(m) |-> m.source[p[e]]])]

\* Some element that _assembly_K processes has dJ <= 0 at a quadrature point.
DegenerateElement(m) ==
    \E e \in 1..ZipLenK(m), i \in 1..4 : QSign(DetJ(m.points_in_elements[e], i)) <= 0

NoHandlerConfigured == Event \notin DOMAIN callbacks \/ callbacks[Event] = <<>>

\* The error raised by the stage at which the request stopped.
StageError ==
    IF Len(trace) = 0 THEN _assembly_K(mesh, omega).error
    ELSE IF Len(trace) = 1 THEN _assembly_f(mesh).error
    ELSE "SolverError"

\* C1: a request in which no stage fails runs the stages in the order
\* assemble, transform, solve, recover, dispatch; the event is dispatched
\* exactly once, after the recovery, with the recovered field P and the mesh
\* that was passed in.
C1_StageOrder ==
    /\ IsPrefix(trace, AllStages)
    /\ pc # "returned" => dispatched = <<>>
    /\ pc = "returned" =>
          /\ trace = AllStages
          /\ <<Ke, fe>> = convert_complex_linear_system_to_real(K, f)
          /\ Len(ye) = 2 * mesh.n_points
          /\ dispatched = << [event |-> Event, P |-> extract_complex_solution(ye),
                              mesh |-> mesh] >>

C1_Witness ==
    /\ pc = "returned"
    /\ NumElements(mesh) = 2
    /\ Len(invoked) = 2
    /\ P[1] = <<QInt(1), QInt(mesh.n_points + 1)>>

\* C2: with no callback configured and every stage successful, the call
\* returns the complex solution field of length n_points.
C2_ReturnsField ==
    (pc = "returned" /\ NoHandlerConfigured) =>
        /\ ret.kind = "value"
        /\ ret.value = P
        /\ Len(ret.value) = mesh.n_points

\* C3: an element with dJ <= 0 at a quadrature point makes the kernel raise,
\* so neither the global matrix nor the global load vector is produced.
C3_DegenerateRaises == DegenerateElement(mesh) => trace = <<>>

\* C4: with the accelerated module or one of its routines absent, nothing
\* fails at import or at selection time and the assembly uses the reference
\* kernels.
C4_FallsBack ==
    fwi_ls # "present" =>
        /\ pc # "import_error"
        /\ err \notin {"ImportError", "AttributeError"}
        /\ Len(trace) >= 1 => kernel_used = "reference"

\* C5: a mesh whose per-element sequences disagree in length makes the
\* assembly fail: neither _assembly_K nor _assembly_f returns a result.
C5_ShapeMismatchFails == LengthsDisagree(mesh) => trace = <<>>

\* C6: a failing stage ends the request with that stage's error; no stage
\* runs again, nothing is returned, and no handler is invoked.  Handlers are
\* invoked only in requests in which every stage completed.
C6_FailurePropagates ==
    /\ IsPrefix(trace, AllStages)
    /\ pc = "raised" =>
          /\ err = StageError
          /\ invoked = <<>>
          /\ dispatched = <<>>
          /\ ret = Unset
          /\ ~ENABLED Next
    /\ invoked # <<>> => (trace = AllStages /\ err = "None")

C6_Witness ==
    /\ pc = "raised"
    /\ err = "SolverError"
    /\ ~NoHandlerConfigured

MatrixIsSumOf(M, m, locals) ==
    \A i \in Nodes(m), j \in Nodes(m) : Entry(M, i, j) = ExpectedK(m, locals, i, j)

VectorIsSumOf(v, m, flocals) ==
    \A p \in Nodes(m) : v[p + 1] = ExpectedF(m, flocals, p)

AllSymmetric(locals) == \A e \in 1..Len(locals) : SymmetricLocal(locals[e])

SymmetricDense(D) == \A i \in 1..Len(D), j \in 1..Len(D) : CEq(D[i][j], D[j][i])

\* The assembly results rK and rf are returned and equal the matrix M (entry
\* by entry) and the vector v.
SameSystem(rK, rf, M, v) ==
    /\ rK.status = "returned"
    /\ Dense(rK.value) = Dense(M)
    /\ rf.status = "returned"
    /\ rf.value = v

\* C7: entry (i, j) of the assembled matrix is the sum of local_e[k, l] over
\* the elements e and slots k, l with connectivity_e[k] = i and
\* connectivity_e[l] = j; 16 triplets are emitted per element.
C7_MatrixAccumulation ==
    (KReturned /\ AllElementsHaveData(mesh)) =>
        /\ Len(K.Ke_coo_data) = 16 * NumElements(mesh)
        /\ K.shape = <<mesh.n_points, mesh.n_points>>
        /\ MatrixIsSumOf(K, mesh, LocalKes(mesh, omega))

\* Two elements sharing nodes, one of them listing a node twice.
C7_Witness ==
    /\ KReturned
    /\ mesh.connectivity_list = <<ConnA, ConnC>>
    /\ AllElementsHaveData(mesh)
    /\ Entry(K, 0, 1) # LocalKes(mesh, omega)[1][1][2]
    /\ Entry(K, 4, 4) = CZero

\* C8: entry p of the assembled load vector is the sum of f_local_e[k] over
\* the elements e and slots k with connectivity_e[k] = p, each element with
\* its own source magnitude; nodes of no element stay 0.
C8_VectorAccumulation ==
    (FReturned /\ Len(mesh.points_in_elements) >= NumElements(mesh)) =>
        /\ Len(f) = mesh.n_points
        /\ VectorIsSumOf(f, mesh, LocalFs(mesh))

C8_Witness ==
    /\ FReturned
    /\ mesh.connectivity_list = <<ConnA, ConnB>>
    /\ Len(mesh.points_in_elements) = 2
    /\ f[2] # LocalFs(mesh)[1][2][1]
    /\ f[2] # LocalFs(mesh)[2][1][1]
    /\ f[1] = LocalFs(mesh)[1][1][1]

\* C9: when every local matrix is symmetric, the assembled matrix is
\* symmetric.
C9_Symmetric ==
    (KReturned /\ AllSymmetric(LocalKes(mesh, omega))) => SymmetricDense(Dense(K))

C9_Witness ==
    /\ KReturned
    /\ mesh.connectivity_list = <<ConnB, ConnC>>
    /\ AllElementsHaveData(mesh)
    /\ AllSymmetric(LocalKes(mesh, omega))
    /\ Entry(K, 1, 2) # CZero
    /\ Entry(K, 1, 2) # Entry(K, 1, 4)

\* C10: the assembled matrix and load vector are the same for every order of
\* the elements.
C10_OrderIndependent ==
    (FReturned /\ ~LengthsDisagree(mesh)) =>
        \A p \in ElementOrders(NumElements(mesh)) :
            SameSystem(_assembly_K(Permute(mesh, p), omega), _assembly_f(Permute(mesh, p)), K, f)

C10_Witness ==
    /\ FReturned
    /\ ~LengthsDisagree(mesh)
    /\ mesh.connectivity_list = <<ConnA, ConnB>>
    /\ mesh.points_in_elements = <<Square, Trapezoid>>
    /\ _assembly_K(Permute(mesh, <<2, 1>>), omega).value # K

====
